---- MODULE Spec2Model ----
(***************************************************************************)
(* Model of toponetx/utils/normalization.py: the Laplacian, Kipf, Xu and   *)
(* Bunch normalizers and the degree-matrix helpers D1, D2, D3, D5.         *)
(*                                                                         *)
(* Numbers.  A float is modelled exactly as an extended rational <<n, d>>  *)
(* in lowest terms with d >= 0: d > 0 is the finite value n/d, <<1, 0>> is *)
(* +inf, <<-1, 0>> is -inf and <<0, 0>> is NaN.  The arithmetic follows    *)
(* IEEE-754 on these (0*inf = NaN, 1/0 = inf, inf-inf = NaN); rounding is  *)
(* not modelled.  x^(-1/2) is irrational, so the Kipf normalizer works on  *)
(* surds [c |-> q, rad |-> r], the value q / sqrt(r) with r > 0.           *)
(*                                                                         *)
(* Objects.  A matrix object is [st |-> storage, m |-> rows], storage one  *)
(* of "ndarray", "csr", "csc", "dia"; [st |-> "other"] is an argument of   *)
(* an unsupported type.  A matrix is a tuple of rows, a row a tuple of     *)
(* numbers; a sparse matrix stores its non-zero entries only.  The heap is *)
(* a sequence of objects and a reference an index into it: the caller's    *)
(* arguments come first, temporaries are appended.                         *)
(***************************************************************************)
EXTENDS Integers, Sequences, FiniteSets, TLC

VARIABLES call, heap, ret

vars == <<call, heap, ret>>

(* ------------------------------ bounds -------------------------------- *)

\* matrix entries range over -MaxEntry..MaxEntry and the half 1/2
MaxEntry == 1

\* identity_multiplier ranges over -1..MaxMult
MaxMult == 2

(* ------------------------- extended rationals ------------------------- *)

AbsInt(x) == IF x < 0 THEN -x ELSE x

SignInt(x) == IF x < 0 THEN -1 ELSE IF x > 0 THEN 1 ELSE 0

RECURSIVE GCD(_, _)
GCD(a, b) == IF b = 0 THEN a ELSE GCD(b, a % b)

RNorm(n, d) ==
    IF d = 0 THEN <<SignInt(n), 0>>
    ELSE LET g == GCD(AbsInt(n), d) IN <<n \div g, d \div g>>

RInt(k) == <<k, 1>>

Zero == RInt(0)

One == RInt(1)

PosInf == <<1, 0>>

NaN == <<0, 0>>

IsNaN(x) == x = NaN

\* np.isinf
IsInf(x) == x[2] = 0 /\ x[1] # 0

IsFinite(x) == x[2] > 0

RMul(x, y) == RNorm(x[1] * y[1], x[2] * y[2])

RAdd(x, y) ==
    IF IsNaN(x) \/ IsNaN(y) THEN NaN
    ELSE IF IsInf(x) /\ IsInf(y) THEN (IF x = y THEN x ELSE NaN)
    ELSE IF IsInf(x) THEN x
    ELSE IF IsInf(y) THEN y
    ELSE RNorm(x[1] * y[2] + y[1] * x[2], x[2] * y[2])

\* np.abs on one entry
RAbs(x) == <<AbsInt(x[1]), x[2]>>

\* np.power(x, -1) and 1.0 / x on one float: 1/0 = inf, 1/inf = 0, 1/NaN = NaN
RRecip(x) == RNorm(IF x[1] < 0 THEN -x[2] ELSE x[2], AbsInt(x[1]))

RLess(x, y) ==
    /\ ~IsNaN(x)
    /\ ~IsNaN(y)
    /\ IF IsInf(x) \/ IsInf(y)
       THEN x # y /\ (x = <<-1, 0>> \/ y = PosInf)
       ELSE x[1] * y[2] < y[1] * x[2]

\* np.maximum on one pair: NaN propagates
RMax(x, y) == IF IsNaN(x) \/ IsNaN(y) THEN NaN ELSE IF RLess(x, y) THEN y ELSE x

RECURSIVE SumSeq(_)
SumSeq(s) == IF s = <<>> THEN Zero ELSE RAdd(Head(s), SumSeq(Tail(s)))

(* ------------------------------- surds -------------------------------- *)

Surd(q) == [c |-> q, rad |-> 1]

SZero == Surd(Zero)

SIsInf(v) == IsInf(v.c)

SIsFinite(v) == IsFinite(v.c)

SMul(v, w) == [c |-> RMul(v.c, w.c), rad |-> v.rad * w.rad]

\* np.power(x, -0.5) on one float: 0 -> inf, negative -> NaN, +inf -> 0,
\* n/d > 0 -> sqrt(d/n) = d / sqrt(n*d)
RInvSqrt(x) ==
    IF IsNaN(x) \/ x[1] < 0 THEN Surd(NaN)
    ELSE IF x = PosInf THEN SZero
    ELSE IF x[1] = 0 THEN Surd(PosInf)
    ELSE [c |-> RInt(x[2]), rad |-> x[1] * x[2]]

\* v = w as real numbers (c1/sqrt(r1) = c2/sqrt(r2)); non-finite values
\* compare by kind
SEq(v, w) ==
    IF SIsFinite(v) /\ SIsFinite(w)
    THEN /\ SignInt(v.c[1]) = SignInt(w.c[1])
         /\ v.c[1] * v.c[1] * w.c[2] * w.c[2] * w.rad
                = w.c[1] * w.c[1] * v.c[2] * v.c[2] * v.rad
    ELSE v.c = w.c

(* ------------------------------ matrices ------------------------------ *)

NRows(M) == Len(M)

NCols(M) == Len(M[1])

Obj(st, M) == [st |-> st, m |-> M]

ZeroMatrix(r, c) == [i \in 1..r |-> [j \in 1..c |-> Zero]]

\* M.T
Transpose(M) == [j \in 1..NCols(M) |-> [i \in 1..NRows(M) |-> M[i][j]]]

\* np.abs(M)
AbsMatrix(M) == [i \in 1..NRows(M) |-> [j \in 1..NCols(M) |-> RAbs(M[i][j])]]

\* M.sum(axis=1): the vector of row sums
RowSums(M) == [i \in 1..NRows(M) |-> SumSeq(M[i])]

\* np.diag(v) / diags(v): the square matrix with v on the diagonal
DiagMatrix(v) == [i \in 1..Len(v) |-> [j \in 1..Len(v) |-> IF i = j THEN v[i] ELSE Zero]]

\* dense product: every term of every inner sum is computed (0 * inf = NaN)
DenseMatMul(A, B) ==
    [i \in 1..NRows(A) |-> [j \in 1..NCols(B) |->
        SumSeq([k \in 1..NCols(A) |-> RMul(A[i][k], B[k][j])])]]

\* sparse product: only stored (non-zero) entries take part
SparseMatMul(A, B) ==
    [i \in 1..NRows(A) |-> [j \in 1..NCols(B) |->
        SumSeq([k \in 1..NCols(A) |->
            IF A[i][k] = Zero \/ B[k][j] = Zero THEN Zero
            ELSE RMul(A[i][k], B[k][j])])]]

\* a scipy.sparse matrix
IsSparse(st) == st \in {"csr", "csc", "dia"}

\* X @ Y and X.dot(Y) on matrix objects: sparse only when both operands
\* are sparse, and then in the format of X (csr for a diagonal X)
MatMul(X, Y) ==
    IF IsSparse(X.st) /\ IsSparse(Y.st)
    THEN Obj(IF X.st = "csc" THEN "csc" ELSE "csr", SparseMatMul(X.m, Y.m))
    ELSE Obj("ndarray", DenseMatMul(X.m, Y.m))

(* -------------------------------- heap -------------------------------- *)

\* a freshly created object: appended to the heap, its reference returned
Alloc(h, v) == [heap |-> Append(h, v), ref |-> Len(h) + 1]

\* an item assignment into the object at ref
Store(h, ref, v) == [h EXCEPT ![ref] = v]

\* the outcome of a call or of a statement: a value, or an exception
Ok(v) == [kind |-> "ok", val |-> v]

Raise(exc) == [kind |-> "raise", exc |-> exc]

Returned(h, v) == [heap |-> h, ret |-> Ok(v)]

(* --------------------- numpy / scipy primitives ------------------------ *)

\* mutant of NpAbs: np.abs(x, out=x), the absolute values written into x
NpAbs_inplace(h, x) ==
    [heap |-> Store(h, x, Obj(h[x].st, AbsMatrix(h[x].m))), ref |-> x]

\* np.abs(x): a new array holding the absolute values; x is left as it is
NpAbs(h, x) == Alloc(h, Obj(h[x].st, AbsMatrix(h[x].m)))

\* M + diags(size * [mult]) for a square M
AddIdentity(M, mult) ==
    [i \in 1..NRows(M) |-> [j \in 1..NCols(M) |->
        IF i = j THEN RAdd(M[i][j], mult) ELSE M[i][j]]]

\* v[np.isinf(v)] = 0.0 on a vector of surds
ZeroInfSurds(v) == [k \in 1..Len(v) |-> IF SIsInf(v[k]) THEN SZero ELSE v[k]]

\* v[np.isinf(v)] = 0.0 on a vector of floats
ZeroInfVector(v) == [k \in 1..Len(v) |-> IF IsInf(v[k]) THEN Zero ELSE v[k]]

\* mutant of ZeroInfMatrix: the zeroing of infinite entries left out
ZeroInfMatrix_skipped(M) == M

\* M[np.isinf(M)] = 0.0 on a matrix of floats
ZeroInfMatrix(M) == [i \in 1..NRows(M) |-> ZeroInfVector(M[i])]

\* X.dot(diags(r)) for sparse X: entry (i, j) is X[i][j] * r[j], and an entry
\* is stored only when both factors are
DotDiag(X, r) ==
    [i \in 1..NRows(X) |-> [j \in 1..NCols(X) |->
        IF X[i][j].c = Zero \/ r[j].c = Zero THEN SZero ELSE SMul(X[i][j], r[j])]]

SurdMatrix(M) == [i \in 1..NRows(M) |-> [j \in 1..NCols(M) |-> Surd(M[i][j])]]

(* ---------------- compute_kipf_adjacency_normalized_matrix ------------- *)

compute_kipf_adjacency_normalized_matrix(h, A_opt, add_identity, identity_multiplier) ==
    LET abs == NpAbs(h, A_opt)
        \* A_opt is rebound to the new matrix (lines 106, 108)
        A1 == IF add_identity
              THEN Alloc(abs.heap,
                         Obj("csr", AddIdentity(abs.heap[abs.ref].m, identity_multiplier)))
              ELSE abs
        rowsum == Alloc(A1.heap, RowSums(A1.heap[A1.ref].m))
        r_inv_sqrt == Alloc(rowsum.heap,
                            [k \in 1..Len(rowsum.heap[rowsum.ref]) |->
                                RInvSqrt(rowsum.heap[rowsum.ref][k])])
        \* r_inv_sqrt[np.isinf(r_inv_sqrt)] = 0.0, in place
        h1 == Store(r_inv_sqrt.heap, r_inv_sqrt.ref,
                    ZeroInfSurds(r_inv_sqrt.heap[r_inv_sqrt.ref]))
        r == h1[r_inv_sqrt.ref]
        X == DotDiag(SurdMatrix(h1[A1.ref].m), r)
        \* .transpose() of a csr_matrix is a csc_matrix
        A_opt_normalized == Alloc(h1, Obj("csc", DotDiag(Transpose(X), r)))
    IN  Returned(A_opt_normalized.heap,
                 A_opt_normalized.heap[A_opt_normalized.ref])

(* ---------------- compute_xu_asymmetric_normalized_matrix -------------- *)

compute_xu_asymmetric_normalized_matrix(h, B, is_sparse) ==
    IF is_sparse
    THEN LET abs == NpAbs(h, B)
             rowsum == Alloc(abs.heap, RowSums(abs.heap[abs.ref].m))
             r_inv == Alloc(rowsum.heap,
                            [k \in 1..Len(rowsum.heap[rowsum.ref]) |->
                                RRecip(rowsum.heap[rowsum.ref][k])])
             \* r_inv[np.isinf(r_inv)] = 0.0, in place
             h1 == Store(r_inv.heap, r_inv.ref, ZeroInfVector(r_inv.heap[r_inv.ref]))
             r_mat_inv == Alloc(h1, Obj("dia", DiagMatrix(h1[r_inv.ref])))
             normalized_matrix == Alloc(r_mat_inv.heap,
                                        MatMul(r_mat_inv.heap[r_mat_inv.ref],
                                               r_mat_inv.heap[B]))
         IN  Returned(normalized_matrix.heap,
                      normalized_matrix.heap[normalized_matrix.ref])
    ELSE LET abs == NpAbs(h, B)
             Di == Alloc(abs.heap, RowSums(abs.heap[abs.ref].m))
             Di2 == Alloc(Di.heap,
                          Obj("ndarray",
                              DiagMatrix([k \in 1..Len(Di.heap[Di.ref]) |->
                                             RRecip(Di.heap[Di.ref][k])])))
             \* Di2[np.isinf(Di2)] = 0.0, in place
             h1 == Store(Di2.heap, Di2.ref,
                         Obj("ndarray", ZeroInfMatrix(Di2.heap[Di2.ref].m)))
             \* B = np.array(B): a copy, to which B is rebound
             B1 == Alloc(h1, Obj("ndarray", h1[B].m))
             normalized_matrix == Alloc(B1.heap,
                                        MatMul(B1.heap[Di2.ref], B1.heap[B1.ref]))
         IN  Returned(normalized_matrix.heap,
                      normalized_matrix.heap[normalized_matrix.ref])

(* ------------------------------ eigsh ---------------------------------- *)

RNeg(x) == <<-x[1], x[2]>>

RSub(x, y) == RAdd(x, RNeg(y))

IsSquareInt(n) == \E k \in 0..n : k * k = n

SqrtInt(n) == CHOOSE k \in 0..n : k * k = n

\* a finite q >= 0 with a rational square root
HasRationalSqrt(q) == IsFinite(q) /\ q[1] >= 0 /\ IsSquareInt(q[1]) /\ IsSquareInt(q[2])

RSqrt(q) == <<SqrtInt(q[1]), SqrtInt(q[2])>>

\* (a - c)^2 + 4 b^2 of the symmetric 2 x 2 matrix ((a, b), (b, c))
Discriminant(M) ==
    RAdd(RMul(RSub(M[1][1], M[2][2]), RSub(M[1][1], M[2][2])),
         RMul(RInt(4), RMul(M[1][2], M[1][2])))

\* the eigenvalues of a symmetric matrix of size 1 or 2
Eigenvalues(M) ==
    IF NRows(M) = 1 THEN {M[1][1]}
    ELSE LET tr == RAdd(M[1][1], M[2][2])
             sq == RSqrt(Discriminant(M))
         IN  {RMul(<<1, 2>>, RAdd(tr, sq)), RMul(<<1, 2>>, RSub(tr, sq))}

\* which="LM": the eigenvalues of largest magnitude (two of them when the
\* spectrum holds both lambda and -lambda; the solver may return either)
LargestMagnitude(M) ==
    {e \in Eigenvalues(M) : \A f \in Eigenvalues(M) : ~RLess(RAbs(e), RAbs(f))}

\* spl.eigsh(L, k=1, which="LM", return_eigenvectors=False)[0]: the outcomes.
\* The solver refuses a matrix that is not square (ValueError) and requires
\* k < N: k is 1 here, so a 1 x 1 matrix is refused too (TypeError for a
\* sparse matrix, ValueError in older releases).
eigsh(L) ==
    IF NRows(L.m) # NCols(L.m) THEN {Raise("ValueError")}
    ELSE IF 1 >= NRows(L.m) THEN {Raise("TypeError"), Raise("ValueError")}
    ELSE {Ok(e) : e \in LargestMagnitude(L.m)}

\* X * s for a sparse X and a float s: the stored entries are scaled
ScalarMul(X, s) ==
    Obj(X.st, [i \in 1..NRows(X.m) |-> [j \in 1..NCols(X.m) |->
        IF IsSparse(X.st) /\ X.m[i][j] = Zero THEN Zero ELSE RMul(X.m[i][j], s)]])

(* ------------------ compute_laplacian_normalized_matrix ---------------- *)

\* topeigen_val is the solver's outcome, one of eigsh(h[L]); the result also
\* records whether the solver was called
compute_laplacian_normalized_matrix(h, L, topeigen_val) ==
    IF topeigen_val.kind = "raise"
    THEN [heap |-> h,
          ret |-> [kind |-> "raise", exc |-> topeigen_val.exc, eigsh_called |-> TRUE]]
    ELSE LET out == Alloc(h, ScalarMul(h[L], RRecip(topeigen_val.val)))
         IN  [heap |-> out.heap,
              ret |-> [kind |-> "ok", val |-> out.heap[out.ref], eigsh_called |-> TRUE]]

(* ----------------- compute_x_laplacian_normalized_matrix --------------- *)

\* topeig is the solver's outcome, one of eigsh(h[L]), read only when the
\* assertion of line 71 passes
compute_x_laplacian_normalized_matrix(h, L, Lx, topeig) ==
    IF NRows(h[L].m) # NCols(h[L].m)
    THEN [heap |-> h,
          ret |-> [kind |-> "raise", exc |-> "AssertionError", eigsh_called |-> FALSE]]
    ELSE IF topeig.kind = "raise"
    THEN [heap |-> h,
          ret |-> [kind |-> "raise", exc |-> topeig.exc, eigsh_called |-> TRUE]]
    ELSE LET out == Alloc(h, ScalarMul(h[Lx], RRecip(topeig.val)))
         IN  [heap |-> out.heap,
              ret |-> [kind |-> "ok", val |-> out.heap[out.ref], eigsh_called |-> TRUE]]

(* ------------------------ degree matrices ------------------------------ *)

\* mutant of MaximumOne: the floor left out
MaximumOne_dropped(v) == v

\* np.maximum(v, 1)
MaximumOne(v) == [k \in 1..Len(v) |-> RMax(v[k], One)]

\* 2 * D and np.ones(n) / 3, entry by entry
ScaleMatrix(s, M) == [i \in 1..NRows(M) |-> [j \in 1..NCols(M) |-> RMul(s, M[i][j])]]

OnesOver3(n) == [k \in 1..n |-> <<1, 3>>]

\* isinstance(B, csr_matrix) / isinstance(B, np.ndarray)
IsCsr(B) == B.st = "csr"

IsNdarray(B) == B.st = "ndarray"

\* the diagonal matrix on v in the storage of the branch taken: diags for
\* csr input, np.diag for ndarray input
DiagLike(B, v) == Obj(IF IsCsr(B) THEN "dia" ELSE "ndarray", DiagMatrix(v))

_compute_D2(B2) ==
    IF IsCsr(B2) \/ IsNdarray(B2)
    THEN Ok(DiagLike(B2, MaximumOne(RowSums(AbsMatrix(B2.m)))))
    ELSE Raise("TypeError")

\* mutant of _compute_D1: the final raise left out, so that an unsupported
\* B1 falls through and None is returned
_compute_D1_no_raise(B1, D2) ==
    IF IsCsr(B1) \/ IsNdarray(B1)
    THEN LET rowsum == RowSums(MatMul(Obj(B1.st, AbsMatrix(B1.m)), D2).m)
             D == DiagLike(B1, rowsum)
         IN  Ok(Obj(D.st, ScaleMatrix(RInt(2), D.m)))
    ELSE Ok([st |-> "other", m |-> <<>>])

\* D2 is a matrix object
_compute_D1(B1, D2) ==
    IF IsCsr(B1) \/ IsNdarray(B1)
    THEN LET rowsum == RowSums(MatMul(Obj(B1.st, AbsMatrix(B1.m)), D2).m)
             D == DiagLike(B1, rowsum)
         IN  Ok(Obj(D.st, ScaleMatrix(RInt(2), D.m)))
    ELSE Raise("TypeError")

_compute_D3(B2) ==
    IF IsCsr(B2) \/ IsNdarray(B2)
    THEN Ok(DiagLike(B2, OnesOver3(NCols(B2.m))))
    ELSE Raise("TypeError")

_compute_D5(B2) ==
    IF IsCsr(B2) \/ IsNdarray(B2)
    THEN Ok(DiagLike(B2, RowSums(AbsMatrix(B2.m))))
    ELSE Raise("TypeError")

(* -------------------------- Bunch normalization ------------------------ *)

\* mutant of pinv: the plain reciprocal of the diagonal, 1/0 = inf
pinv_reciprocal(D) ==
    Obj("ndarray",
        [i \in 1..NRows(D.m) |-> [j \in 1..NCols(D.m) |->
            IF i = j THEN RRecip(D.m[i][i]) ELSE Zero]])

\* numpy.linalg.pinv of a diagonal matrix with finite entries: the
\* reciprocal of every non-zero diagonal entry, zero elsewhere; dense
pinv(D) ==
    Obj("ndarray",
        [i \in 1..NRows(D.m) |-> [j \in 1..NCols(D.m) |->
            IF i = j /\ D.m[i][i] # Zero THEN RRecip(D.m[i][i]) ELSE Zero]])

\* D.toarray()
toarray(D) == Obj("ndarray", D.m)

\* mutant of csr_matrix: the conversion left out, the dense matrix kept
csr_matrix_dropped(X) == X

\* csr_matrix(X)
csr_matrix(X) == Obj("csr", X.m)

\* X.T: the transpose of a csr_matrix is a csc_matrix
T(X) == Obj(IF X.st = "csr" THEN "csc" ELSE X.st, Transpose(X.m))

_compute_B1_normalized_matrix(B1, B2) ==
    LET D2 == _compute_D2(B2)
        D1 == _compute_D1(B1, D2.val)
    IN  IF D2.kind = "raise" THEN D2
        ELSE IF D1.kind = "raise" THEN D1
        ELSE IF IsNdarray(B1) THEN Ok(MatMul(pinv(D1.val), B1))
        ELSE IF IsCsr(B1) THEN Ok(MatMul(csr_matrix(pinv(toarray(D1.val))), B1))
        \* no else branch: D1_pinv is unbound at line 228
        ELSE Raise("UnboundLocalError")

_compute_B1T_normalized_matrix(B1, B2) ==
    LET D2 == _compute_D2(B2)
        D1 == _compute_D1(B1, D2.val)
    IN  IF D2.kind = "raise" THEN D2
        ELSE IF D1.kind = "raise" THEN D1
        ELSE IF IsNdarray(B1)
        THEN Ok(MatMul(MatMul(D2.val, T(B1)), pinv(D1.val)))
        ELSE IF IsCsr(B1)
        THEN Ok(MatMul(MatMul(D2.val, T(B1)), csr_matrix(pinv(toarray(D1.val)))))
        ELSE Raise("TypeError")

_compute_B2_normalized_matrix(B2) ==
    LET D3 == _compute_D3(B2)
    IN  IF D3.kind = "raise" THEN D3 ELSE Ok(MatMul(B2, D3.val))

_compute_B2T_normalized_matrix(B2) ==
    LET D5 == _compute_D5(B2)
    IN  IF D5.kind = "raise" THEN D5
        ELSE IF IsNdarray(B2) THEN Ok(MatMul(T(B2), pinv(D5.val)))
        ELSE IF IsCsr(B2) THEN Ok(MatMul(T(B2), csr_matrix(pinv(toarray(D5.val)))))
        ELSE Raise("TypeError")

compute_bunch_normalized_matrices(B1, B2) ==
    LET B1N == _compute_B1_normalized_matrix(B1, B2)
        B1TN == _compute_B1T_normalized_matrix(B1, B2)
        B2N == _compute_B2_normalized_matrix(B2)
        B2TN == _compute_B2T_normalized_matrix(B2)
    IN  IF B1N.kind = "raise" THEN B1N
        ELSE IF B1TN.kind = "raise" THEN B1TN
        ELSE IF B2N.kind = "raise" THEN B2N
        ELSE IF B2TN.kind = "raise" THEN B2TN
        ELSE Ok(<<B1N.val, B1TN.val, B2N.val, B2TN.val>>)

(* -------------------------------- inputs ------------------------------- *)

IntEntries == {RInt(k) : k \in -MaxEntry..MaxEntry}

Entries == IntEntries \cup {<<1, 2>>}

Matrices(r, c) == [1..r -> [1..c -> Entries]]

IntMatrices(r, c) == [1..r -> [1..c -> IntEntries]]

\* the entries of a signed incidence matrix
Signs == {RInt(-1), Zero, One}

SignMatrices(r, c) == [1..r -> [1..c -> Signs]]

Multipliers == {RInt(k) : k \in -1..MaxMult}

KipfSizes == {1, 2}

XuShapes == {<<2, 2>>, <<1, 3>>, <<2, 1>>}

\* eigsh is given symmetric matrices; those modelled are of size 1 and 2
\* with rational eigenvalues
IsLaplacian(M) ==
    IF NRows(M) = 1 THEN TRUE
    ELSE M[1][2] = M[2][1] /\ HasRationalSqrt(Discriminant(M))

\* shapes of L: square ones, and ones that are not square
SquareShapes == {<<1, 1>>, <<2, 2>>}

NonSquareShapes == {<<1, 2>>, <<2, 1>>}

\* (rows of B1, columns of B1 = rows of B2, columns of B2)
BunchShapes == {<<2, 2, 1>>, <<1, 3, 1>>}

SmallShape == <<2, 1, 1>>

B2Shapes == {<<2, 1>>, <<3, 1>>, <<2, 2>>}

Supported == {"ndarray", "csr"}

\* an argument that is neither an ndarray nor a csr_matrix
Other == [st |-> "other", m |-> <<>>]

NoOpts == [round |-> 1]

(* ------------------------------ the calls ------------------------------ *)

\* A caller holds the argument objects args on the heap, at references
\* 1..Len(args), and calls the function fn of the module.
Start(fn, args, opts) ==
    /\ call = [fn |-> fn, refs |-> [k \in 1..Len(args) |-> k], opts |-> opts]
    /\ heap = args
    /\ ret = [kind |-> "none"]

StartLaplacian ==
    \E sh \in SquareShapes \cup NonSquareShapes :
      \E L \in Matrices(sh[1], sh[2]) :
        /\ IF sh \in SquareShapes THEN IsLaplacian(L) ELSE TRUE
        /\ \/ Start("laplacian", <<Obj("csr", L)>>, NoOpts)
           \/ \E Lx \in Matrices(2, 1) :
                Start("x_laplacian", <<Obj("csr", L), Obj("csr", Lx)>>, NoOpts)

\* identity_multiplier is read only when add_identity is set; without it
\* the call is made with the default 1.0
StartKipf ==
    \E n \in KipfSizes :
      \E A \in Matrices(n, n) :
        \/ Start("kipf", <<Obj("csr", A)>>, [add_identity |-> FALSE, mult |-> One])
        \/ \E mult \in Multipliers :
             Start("kipf", <<Obj("csr", A)>>, [add_identity |-> TRUE, mult |-> mult])

StartXu ==
    \E sh \in XuShapes, is_sparse \in BOOLEAN :
      \E B \in Matrices(sh[1], sh[2]) :
        Start("xu", <<Obj(IF is_sparse THEN "csr" ELSE "ndarray", B)>>,
              [is_sparse |-> is_sparse])

\* boundary matrices B1 (weighted) and B2 (a signed incidence matrix) of
\* compatible shape, in the same storage
StartBunch ==
    \E sh \in BunchShapes, st \in Supported :
      \E M1 \in IntMatrices(sh[1], sh[2]), M2 \in SignMatrices(sh[2], sh[3]) :
        Start("bunch", <<Obj(st, M1), Obj(st, M2)>>, NoOpts)

\* B1 and B2 of the small shape, in every pair of storages
StartSmall ==
    \E fn \in {"bunch", "B1", "B1T", "D1"}, st1 \in Supported, st2 \in Supported :
      \E M1 \in Matrices(SmallShape[1], SmallShape[2]),
         M2 \in Matrices(SmallShape[2], SmallShape[3]) :
        IF fn = "D1"
        THEN Start(fn, <<Obj(st1, M1), _compute_D2(Obj(st2, M2)).val>>, NoOpts)
        ELSE Start(fn, <<Obj(st1, M1), Obj(st2, M2)>>, NoOpts)

\* calls with an argument of an unsupported type
StartBad ==
    \/ \E fn \in {"bunch", "B1", "B1T"} :
         \/ Start(fn, <<Other, Other>>, NoOpts)
         \/ \E st \in Supported, M \in Matrices(2, 1) :
              Start(fn, <<Other, Obj(st, M)>>, NoOpts)
         \/ \E st \in Supported, M \in Matrices(1, 2) :
              Start(fn, <<Obj(st, M), Other>>, NoOpts)
    \/ \E fn \in {"B2", "B2T", "D2", "D3", "D5"} : Start(fn, <<Other>>, NoOpts)
    \/ \E st \in Supported, M \in Matrices(2, 1) :
         Start("D1", <<Other, _compute_D2(Obj(st, M)).val>>, NoOpts)

StartB2 ==
    \E fn \in {"B2", "B2T", "D2", "D3", "D5"}, sh \in B2Shapes, st \in Supported :
      \E M \in Matrices(sh[1], sh[2]) : Start(fn, <<Obj(st, M)>>, NoOpts)

Init ==
    \/ StartLaplacian
    \/ StartKipf
    \/ StartXu
    \/ StartBunch
    \/ StartSmall
    \/ StartBad
    \/ StartB2

Pending(fn) == call.fn = fn /\ ret.kind = "none"

Arg(k) == heap[call.refs[k]]

\* the call ends: res is [heap, ret]
Finish(res) ==
    /\ heap' = res.heap
    /\ ret' = res.ret
    /\ UNCHANGED call

\* the call of a function without item assignments ends: the heap is as it was
FinishPure(res) ==
    /\ ret' = res
    /\ UNCHANGED <<call, heap>>

Laplacian ==
    /\ Pending("laplacian")
    /\ \E topeigen_val \in eigsh(Arg(1)) :
         Finish(compute_laplacian_normalized_matrix(heap, call.refs[1], topeigen_val))

\* the caller normalizes the matrix a first call returned
LaplacianAgain ==
    /\ call.fn = "laplacian"
    /\ ret.kind = "ok"
    /\ call.opts.round = 1
    /\ call' = [call EXCEPT !.refs = <<Len(heap)>>, !.opts.round = 2]
    /\ ret' = [kind |-> "none"]
    /\ UNCHANGED heap

XLaplacian ==
    /\ Pending("x_laplacian")
    /\ \E topeig \in eigsh(Arg(1)) :
         Finish(compute_x_laplacian_normalized_matrix(heap, call.refs[1], call.refs[2], topeig))

Kipf ==
    /\ Pending("kipf")
    /\ Finish(compute_kipf_adjacency_normalized_matrix(
                  heap, call.refs[1], call.opts.add_identity, call.opts.mult))

Xu ==
    /\ Pending("xu")
    /\ Finish(compute_xu_asymmetric_normalized_matrix(heap, call.refs[1], call.opts.is_sparse))

Bunch ==
    /\ Pending("bunch")
    /\ FinishPure(compute_bunch_normalized_matrices(Arg(1), Arg(2)))

B1Normalized ==
    /\ Pending("B1")
    /\ FinishPure(_compute_B1_normalized_matrix(Arg(1), Arg(2)))

B1TNormalized ==
    /\ Pending("B1T")
    /\ FinishPure(_compute_B1T_normalized_matrix(Arg(1), Arg(2)))

B2Normalized ==
    /\ Pending("B2")
    /\ FinishPure(_compute_B2_normalized_matrix(Arg(1)))

B2TNormalized ==
    /\ Pending("B2T")
    /\ FinishPure(_compute_B2T_normalized_matrix(Arg(1)))

CallD1 ==
    /\ Pending("D1")
    /\ FinishPure(_compute_D1(Arg(1), Arg(2)))

CallD2 ==
    /\ Pending("D2")
    /\ FinishPure(_compute_D2(Arg(1)))

CallD3 ==
    /\ Pending("D3")
    /\ FinishPure(_compute_D3(Arg(1)))

CallD5 ==
    /\ Pending("D5")
    /\ FinishPure(_compute_D5(Arg(1)))

Next ==
    \/ Laplacian
    \/ LaplacianAgain
    \/ XLaplacian
    \/ Kipf
    \/ Xu
    \/ Bunch
    \/ B1Normalized
    \/ B1TNormalized
    \/ B2Normalized
    \/ B2TNormalized
    \/ CallD1
    \/ CallD2
    \/ CallD3
    \/ CallD5

Spec == Init /\ [][Next]_vars

(* ======================================================================= *)
(*                               the claims                                *)
(* ======================================================================= *)

Done(fn) == call.fn = fn /\ ret.kind # "none"

AllEntries(M, P(_)) == \A i \in 1..NRows(M) : \A j \in 1..NCols(M) : P(M[i][j])

\* the sum of |M[i][j]| over j
AbsRowSum(M, i) == SumSeq([j \in 1..NCols(M) |-> RAbs(M[i][j])])

Supports(B) == B.st \in Supported

(* ----------------------------------------------------------------------- *)
(* C1: the Kipf normalizer never produces a NaN or infinite entry: for      *)
(* every finite square A, both values of add_identity and every finite      *)
(* identity_multiplier (positive, zero or negative), it returns a matrix    *)
(* whose entries are all finite.                                            *)
(* ----------------------------------------------------------------------- *)
C1_KipfOutputFinite ==
    Done("kipf") /\ AllEntries(Arg(1).m, IsFinite)
        => ret.kind = "ok" /\ AllEntries(ret.val.m, SIsFinite)

(* ----------------------------------------------------------------------- *)
(* C2: for every square A, symmetric or not, the Kipf normalizer returns    *)
(* D^(-1/2) A' D^(-1/2): entry (i, j) is s_i * A'[i][j] * s_j, where        *)
(* A' = |A| (+ identity_multiplier * I), s_k = rowsum_k^(-1/2), and s_k = 0 *)
(* when rowsum_k = 0.                                                       *)
(* ----------------------------------------------------------------------- *)
KipfAPrime ==
    IF call.opts.add_identity
    THEN AddIdentity(AbsMatrix(Arg(1).m), call.opts.mult)
    ELSE AbsMatrix(Arg(1).m)

KipfScale(k) ==
    LET d == SumSeq(KipfAPrime[k]) IN IF d = Zero THEN SZero ELSE RInvSqrt(d)

\* s_i * a * s_j, zero when a factor is zero
KipfEntry(si, a, sj) ==
    IF a = Zero \/ si = SZero \/ sj = SZero THEN SZero ELSE SMul(si, SMul(Surd(a), sj))

C2_KipfIsDAD ==
    Done("kipf")
        => /\ ret.kind = "ok"
           /\ \A i \in 1..NRows(Arg(1).m) : \A j \in 1..NCols(Arg(1).m) :
                SEq(ret.val.m[i][j], KipfEntry(KipfScale(i), KipfAPrime[i][j], KipfScale(j)))

(* ----------------------------------------------------------------------- *)
(* C3: both Laplacian normalizers reject an L that is not square by an      *)
(* explicit shape assertion, which fails before the eigen-solver is called. *)
(* ----------------------------------------------------------------------- *)
C3_NonSquareFailsAssertion ==
    (Done("laplacian") \/ Done("x_laplacian")) /\ NRows(Arg(1).m) # NCols(Arg(1).m)
        => ret.kind = "raise" /\ ret.exc = "AssertionError" /\ ~ret.eigsh_called

(* ----------------------------------------------------------------------- *)
(* C4: the Bunch normalizer and its four sub-normalizers raise a TypeError  *)
(* whenever an argument is neither an ndarray nor a csr_matrix: no other    *)
(* exception is raised and nothing is returned.                             *)
(* ----------------------------------------------------------------------- *)
BunchFunctions == {"bunch", "B1", "B1T", "B2", "B2T"}

HasUnsupportedArg == \E k \in 1..Len(call.refs) : ~Supports(Arg(k))

C4_UnsupportedTypeIsTypeError ==
    call.fn \in BunchFunctions /\ ret.kind # "none" /\ HasUnsupportedArg
        => ret = Raise("TypeError")

\* B1 is of an unsupported type and B2 is a matrix: the case in which the
\* B1 normalizer, which has no else branch, would reach the unbound D1_pinv
C4_Witness ==
    Done("B1") /\ ~Supports(Arg(1)) /\ Supports(Arg(2)) /\ ret = Raise("TypeError")

(* ----------------------------------------------------------------------- *)
(* C5: the sparse and the dense path of the Xu normalizer return the same   *)
(* matrix D^(-1) B: row i is row i of B divided by the sum of |B[i][j]|     *)
(* when that sum is not zero, and an all-zero row when it is.               *)
(* ----------------------------------------------------------------------- *)
XuRow(B, i) ==
    IF AbsRowSum(B, i) = Zero
    THEN [j \in 1..NCols(B) |-> Zero]
    ELSE [j \in 1..NCols(B) |-> RMul(B[i][j], RRecip(AbsRowSum(B, i)))]

\* what the other path returns for the same matrix
XuOtherPath ==
    compute_xu_asymmetric_normalized_matrix(
        <<Obj(IF call.opts.is_sparse THEN "ndarray" ELSE "csr", Arg(1).m)>>,
        1, ~call.opts.is_sparse).ret

C5_XuPathsAgree ==
    Done("xu")
        => /\ ret.kind = "ok"
           /\ ret.val.m = [i \in 1..NRows(Arg(1).m) |-> XuRow(Arg(1).m, i)]
           /\ XuOtherPath.kind = "ok"
           /\ XuOtherPath.val.m = ret.val.m

\* the dense path has normalized a matrix with a zero row and a non-zero row
C5_Witness ==
    /\ Done("xu")
    /\ ~call.opts.is_sparse
    /\ ret.kind = "ok"
    /\ \E i \in 1..NRows(Arg(1).m) : AbsRowSum(Arg(1).m, i) = Zero
    /\ \E i \in 1..NRows(Arg(1).m) : \E j \in 1..NCols(Arg(1).m) :
         ret.val.m[i][j] # Zero /\ ret.val.m[i][j] # Arg(1).m[i][j]

(* ----------------------------------------------------------------------- *)
(* C6: the pseudo-inverse handles singular degree matrices: row i of        *)
(* B1_norm is row i of B1 divided by D1[i][i] when D1[i][i] is not zero and *)
(* all zero when it is; column i of B2T_norm is all zero when row i of |B2| *)
(* sums to zero; no output entry is NaN or infinite; a 1 x 3 zero B1 gives  *)
(* a 1 x 3 zero B1_norm.                                                    *)
(* ----------------------------------------------------------------------- *)
\* D1[i][i] as the code defines it: 2 * sum_j |B1[i][j]| * max(rowsum_j |B2|, 1)
D1Entry(B1, B2, i) ==
    RMul(RInt(2),
         SumSeq([j \in 1..NCols(B1) |->
                    RMul(RAbs(B1[i][j]),
                         IF RLess(AbsRowSum(B2, j), One) THEN One ELSE AbsRowSum(B2, j))]))

B1NormIs(N, B1, B2) ==
    /\ NRows(N) = NRows(B1)
    /\ NCols(N) = NCols(B1)
    /\ \A i \in 1..NRows(B1) : \A j \in 1..NCols(B1) :
         N[i][j] = IF D1Entry(B1, B2, i) = Zero THEN Zero
                   ELSE RMul(B1[i][j], RRecip(D1Entry(B1, B2, i)))
    /\ B1 = ZeroMatrix(1, 3) => N = ZeroMatrix(1, 3)

B2TNormIs(N, B2) ==
    /\ NRows(N) = NCols(B2)
    /\ NCols(N) = NRows(B2)
    /\ \A i \in 1..NRows(B2) : \A k \in 1..NCols(B2) :
         N[k][i] = IF AbsRowSum(B2, i) = Zero THEN Zero
                   ELSE RMul(B2[i][k], RRecip(AbsRowSum(B2, i)))

C6_PinvHandlesSingularDegrees ==
    /\ Done("bunch") /\ ~HasUnsupportedArg
         => /\ ret.kind = "ok"
            /\ B1NormIs(ret.val[1].m, Arg(1).m, Arg(2).m)
            /\ B2TNormIs(ret.val[4].m, Arg(2).m)
            /\ \A k \in 1..4 : AllEntries(ret.val[k].m, IsFinite)
    /\ Done("B1") /\ ~HasUnsupportedArg
         => ret.kind = "ok" /\ B1NormIs(ret.val.m, Arg(1).m, Arg(2).m)
    /\ Done("B2T") /\ ~HasUnsupportedArg
         => ret.kind = "ok" /\ B2TNormIs(ret.val.m, Arg(1).m)

\* D1 and D5 are singular without being zero: B1 has a zero row and a
\* non-zero row, and so has B2
C6_Witness ==
    /\ Done("bunch")
    /\ ret.kind = "ok"
    /\ Arg(1).st = "ndarray"
    /\ \E i \in 1..NRows(Arg(1).m) : D1Entry(Arg(1).m, Arg(2).m, i) = Zero
    /\ \E i \in 1..NRows(Arg(1).m) : \E j \in 1..NCols(Arg(1).m) : ret.val[1].m[i][j] # Zero
    /\ \E i \in 1..NRows(Arg(2).m) : AbsRowSum(Arg(2).m, i) = Zero
    /\ \E i \in 1..NRows(Arg(2).m) : AbsRowSum(Arg(2).m, i) # Zero

(* ----------------------------------------------------------------------- *)
(* C7: _compute_D2 returns a square diagonal matrix of dimension            *)
(* B2.shape[0] whose i-th diagonal entry is max(sum_j |B2[i][j]|, 1), so at *)
(* least 1; the floor is applied to D2 only: the i-th diagonal entry of D5  *)
(* is sum_j |B2[i][j]| exactly, and D1 and D3 apply no floor.               *)
(* ----------------------------------------------------------------------- *)
\* M is the n x n diagonal matrix with d(i) at (i, i)
IsDiagonalOf(M, n, d(_)) ==
    /\ NRows(M) = n
    /\ NCols(M) = n
    /\ \A i \in 1..n : \A j \in 1..n : M[i][j] = IF i = j THEN d(i) ELSE Zero

C7_FloorOnlyInD2 ==
    /\ Done("D2") /\ Supports(Arg(1))
         => /\ ret.kind = "ok"
            /\ LET d(i) == IF RLess(AbsRowSum(Arg(1).m, i), One) THEN One
                           ELSE AbsRowSum(Arg(1).m, i)
               IN  IsDiagonalOf(ret.val.m, NRows(Arg(1).m), d)
            /\ \A i \in 1..NRows(Arg(1).m) : ~RLess(ret.val.m[i][i], One)
    /\ Done("D5") /\ Supports(Arg(1))
         => /\ ret.kind = "ok"
            /\ LET d(i) == AbsRowSum(Arg(1).m, i)
               IN  IsDiagonalOf(ret.val.m, NRows(Arg(1).m), d)
    /\ Done("D3") /\ Supports(Arg(1))
         => /\ ret.kind = "ok"
            /\ LET d(i) == <<1, 3>>
               IN  IsDiagonalOf(ret.val.m, NCols(Arg(1).m), d)
    /\ Done("D1") /\ Supports(Arg(1))
         => /\ ret.kind = "ok"
            /\ LET d(i) == RMul(RInt(2),
                                SumSeq([j \in 1..NCols(Arg(1).m) |->
                                           RMul(RAbs(Arg(1).m[i][j]), Arg(2).m[j][j])]))
               IN  IsDiagonalOf(ret.val.m, NRows(Arg(1).m), d)

\* D2 of a matrix with a row whose sum is strictly between 0 and 1 (the
\* floor acts) and a row whose sum is above 1 (it does not)
C7_Witness ==
    /\ Done("D2")
    /\ ret.kind = "ok"
    /\ \E i \in 1..NRows(Arg(1).m) :
         /\ RLess(Zero, AbsRowSum(Arg(1).m, i))
         /\ RLess(AbsRowSum(Arg(1).m, i), One)
         /\ ret.val.m[i][i] = One
    /\ \E i \in 1..NRows(Arg(1).m) : RLess(One, ret.val.m[i][i])

(* ----------------------------------------------------------------------- *)
(* C8: for every square symmetric L whose dominant eigenvalue lambda is     *)
(* strictly positive, the Laplacian normalizer returns L / lambda, whose    *)
(* dominant eigenvalue is 1; normalizing the output again returns it        *)
(* unchanged, and the identity matrix is returned unchanged.                *)
(* ----------------------------------------------------------------------- *)
\* the matrix the caller first passed
FirstL == heap[1].m

IsSquare(M) == NRows(M) = NCols(M)

\* the eigenvalues of largest magnitude are all strictly positive
DominantPositive(M) == \A e \in LargestMagnitude(M) : RLess(Zero, e)

Dominant(M) == CHOOSE e \in LargestMagnitude(M) : TRUE

Identity(n) == [i \in 1..n |-> [j \in 1..n |-> IF i = j THEN One ELSE Zero]]

\* what the claim says of a finished call on L
LaplacianNormalized(L) ==
    /\ ret.kind = "ok"
    /\ ret.val.m = [i \in 1..NRows(L) |-> [j \in 1..NCols(L) |->
                       RMul(L[i][j], RRecip(Dominant(L)))]]
    /\ LargestMagnitude(ret.val.m) = {One}
    /\ L = Identity(NRows(L)) => ret.val.m = L
    /\ call.opts.round = 2 => ret.val.m = L

C8_LaplacianNormalizes ==
    Done("laplacian") /\ IsSquare(FirstL) /\ DominantPositive(FirstL)
        => LaplacianNormalized(Arg(1).m)

(* ----------------------------------------------------------------------- *)
(* C9: Bunch normalization preserves the storage mode: for dense B1 and B2  *)
(* the degree matrices D1, D2, D3, D5 and the four outputs are dense, for   *)
(* csr B1 and B2 they are sparse, and the dense and the sparse run on the   *)
(* same B1, B2 give entrywise equal results.                                *)
(* ----------------------------------------------------------------------- *)
\* the storage an object must have, given the storage st of the inputs
SameMode(st, X) == IF st = "ndarray" THEN X.st = "ndarray" ELSE IsSparse(X.st)

OtherStorage(X) == Obj(IF X.st = "ndarray" THEN "csr" ELSE "ndarray", X.m)

C9_StorageModePreserved ==
    /\ Done("bunch") /\ ~HasUnsupportedArg /\ Arg(1).st = Arg(2).st
         => /\ ret.kind = "ok"
            /\ \A k \in 1..4 : SameMode(Arg(1).st, ret.val[k])
            /\ SameMode(Arg(1).st, _compute_D2(Arg(2)).val)
            /\ SameMode(Arg(1).st, _compute_D1(Arg(1), _compute_D2(Arg(2)).val).val)
            /\ SameMode(Arg(1).st, _compute_D3(Arg(2)).val)
            /\ SameMode(Arg(1).st, _compute_D5(Arg(2)).val)
            /\ LET other == compute_bunch_normalized_matrices(
                                OtherStorage(Arg(1)), OtherStorage(Arg(2)))
               IN  /\ other.kind = "ok"
                   /\ \A k \in 1..4 : other.val[k].m = ret.val[k].m
    /\ call.fn \in {"D2", "D3", "D5"} /\ ret.kind = "ok" => SameMode(Arg(1).st, ret.val)
    /\ Done("D1") /\ ret.kind = "ok" /\ SameMode(Arg(1).st, Arg(2))
         => SameMode(Arg(1).st, ret.val)

\* a sparse run on matrices without a zero row
C9_Witness ==
    /\ Done("bunch")
    /\ ret.kind = "ok"
    /\ Arg(1).st = "csr"
    /\ Arg(2).st = "csr"
    /\ \A i \in 1..NRows(Arg(1).m) : AbsRowSum(Arg(1).m, i) # Zero
    /\ \A k \in 1..4 :
         /\ IsSparse(ret.val[k].st)
         /\ ret.val[k].m # ZeroMatrix(NRows(ret.val[k].m), NCols(ret.val[k].m))

(* ----------------------------------------------------------------------- *)
(* C10: no normalizer mutates its arguments: a call, returning or raising,  *)
(* leaves every object the caller holds as it was; the in-place zeroing of  *)
(* infinite scaling factors in Kipf and Xu touches only temporaries the     *)
(* call itself created.                                                     *)
(* ----------------------------------------------------------------------- *)
C10_ArgumentsNotMutated ==
    [][\A k \in 1..Len(heap) : heap'[k] = heap[k]]_vars

\* a Kipf call on a matrix with a negative entry and a zero row: np.abs
\* changes values and the zeroing of infinite factors acts
C10_Witness ==
    /\ Done("kipf")
    /\ ~call.opts.add_identity
    /\ \E i \in 1..NRows(Arg(1).m) : \E j \in 1..NCols(Arg(1).m) : Arg(1).m[i][j][1] < 0
    \* heap[4] is r_inv_sqrt, after A_opt, np.abs(A_opt) and rowsum
    /\ \E i \in 1..NRows(Arg(1).m) : AbsRowSum(Arg(1).m, i) = Zero /\ heap[4][i] = SZero

====
